---- MODULE Spec2Model ----
(***************************************************************************)
(* Model of language_converters/python/service_generator.py: the          *)
(* derivation of service operation descriptors from OpenAPI operations    *)
(* and their grouping into services.                                      *)
(*                                                                         *)
(* Python values are encoded as follows.                                   *)
(*   str        a sequence of one-character strings, where the code looks *)
(*              inside the string (startswith, replace, split, in, int);  *)
(*              a TLA+ string where it is only compared or looked up.      *)
(*   Optional   None is << >>, a present value x is << x >>.              *)
(*   dict       a sequence of << key, value >> pairs in insertion order.  *)
(*   a call     [exc |-> "", val |-> v] when it returns v,                *)
(*              [exc |-> e, val |-> << >>] when it raises e.               *)
(***************************************************************************)
EXTENDS Integers, Sequences, FiniteSets, TLC

VARIABLES
    paths,           \* generate_services: the paths argument
    library_config,  \* generate_services: the library_config argument
    pos,             \* number of (path, http_operation) iterations finished
    service_ops,     \* generate_services: local list service_ops
    services,        \* generate_services: local list services
    echoed,          \* operation ids reported by click.echo
    pc,              \* position of the running call
    operation,       \* the Operation argument of a single resolver call
    result           \* what the resolver calls have returned so far

vars == << paths, library_config, pos, service_ops, services, echoed, pc,
           operation, result >>

----------------------------------------------------------------------------
(* Optional values and call outcomes *)

None == << >>

Some(x) == << x >>

IsNone(o) == Len(o) = 0

Get(o) == o[1]

Ok(v) == [exc |-> "", val |-> v]

Raise(e) == [exc |-> e, val |-> << >>]

Returned(r) == r.exc = ""

----------------------------------------------------------------------------
(* str operations *)

Digits == <<"0", "1", "2", "3", "4", "5", "6", "7", "8", "9">>

IsDigit(c) == \E d \in 1..10 : Digits[d] = c

DigitVal(c) == (CHOOSE d \in 1..10 : Digits[d] = c) - 1

\* str.startswith(prefix)
StartsWith(s, prefix) ==
    /\ Len(s) >= Len(prefix)
    /\ SubSeq(s, 1, Len(prefix)) = prefix

\* sub in s
Contains(s, sub) ==
    \E i \in 0..(Len(s) - Len(sub)) : SubSeq(s, i + 1, i + Len(sub)) = sub

\* str.replace(a, b) for one-character a and b
Replace(s, a, b) == [i \in 1..Len(s) |-> IF s[i] = a THEN b ELSE s[i]]

\* str.split(sep)[-1] for a one-character sep
SplitLast(s, sep) ==
    LET cuts == {i \in 1..Len(s) : s[i] = sep}
        from == IF cuts = {} THEN 1
                ELSE (CHOOSE i \in cuts : \A k \in cuts : k <= i) + 1
    IN SubSeq(s, from, Len(s))

RECURSIVE DecimalValue(_)
DecimalValue(s) ==
    IF Len(s) = 0 THEN 0
    ELSE 10 * DecimalValue(SubSeq(s, 1, Len(s) - 1)) + DigitVal(s[Len(s)])

\* int(s): raises ValueError unless s is a decimal literal
IntOf(s) ==
    IF Len(s) > 0 /\ \A i \in 1..Len(s) : IsDigit(s[i])
    THEN Ok(DecimalValue(s))
    ELSE Raise("ValueError")

\* sep.join(parts)
RECURSIVE Join(_, _)
Join(sep, parts) ==
    IF Len(parts) = 0 THEN << >>
    ELSE IF Len(parts) = 1 THEN parts[1]
    ELSE parts[1] \o sep \o Join(sep, Tail(parts))

\* dict.get(key): the value stored under key, else None
RECURSIVE DictGet(_, _)
DictGet(d, key) ==
    IF Len(d) = 0 THEN None
    ELSE IF d[1][1] = key THEN Some(d[1][2])
    ELSE DictGet(Tail(d), key)

\* key in dict.keys()
HasKey(d, key) == \E i \in 1..Len(d) : d[i][1] = key

----------------------------------------------------------------------------
(* String literals of the source *)

S_200 == <<"2", "0", "0">>

S_2 == <<"2">>

S_array == <<"a", "r", "r", "a", "y">>

S_async_ == <<"a", "s", "y", "n", "c", "_">>

S__service == <<"_", "s", "e", "r", "v", "i", "c", "e">>

S_None == <<"N", "o", "n", "e">>

S_Pet == <<"P", "e", "t">>

S_Tag == <<"T", "a", "g">>

S_RefPet == <<"#", "/", "s", "/", "P", "e", "t">>

----------------------------------------------------------------------------
(* Schema objects and the models of openapi_python_generator.models *)

Reference(ref) == [kind |-> "Reference", ref |-> ref]

\* A Schema, described by what the type converter makes of it.
Schema(original_type, converted_type, import_types) ==
    [kind |-> "Schema", original_type |-> original_type,
     converted_type |-> converted_type, import_types |-> import_types]

MediaType(media_type_schema) == [media_type_schema |-> media_type_schema]

Response(content) == [kind |-> "Response", content |-> content]

TypeConversion(original_type, converted_type, import_types) ==
    [original_type |-> original_type, converted_type |-> converted_type,
     import_types |-> import_types]

\* model_generator.type_converter(schema, required): deterministic and total
type_converter(schema, required) ==
    TypeConversion(
        schema.original_type,
        IF required THEN schema.converted_type
        ELSE <<"Optional", "[">> \o schema.converted_type \o <<"]">>,
        schema.import_types)

\* A Python argument that is a str where the field is a bool, or a bool.
PyStr(s) == [t |-> "str", s |-> s, b |-> FALSE]

PyBool(b) == [t |-> "bool", s |-> "", b |-> b]

\* The validation of a bool field: a bool is kept, a str is parsed.
CoerceBool(x) ==
    IF x.t = "bool" THEN x.b ELSE x.s \in {"True", "true", "1", "yes", "on"}

\* A status code is the str "200" or the int of a response key.
StrCode(s) == [t |-> "str", s |-> s, n |-> 0]

IntCode(n) == [t |-> "int", s |-> << >>, n |-> n]

OpReturnType(type, status_code, complex_type, list_type) ==
    [type |-> type, status_code |-> status_code,
     complex_type |-> CoerceBool(complex_type), list_type |-> list_type]

----------------------------------------------------------------------------
(* generate_return_type *)

\* Mutant of GoodResponses: the startswith("2") filter is dropped.
RECURSIVE GoodResponses_Unfiltered(_)
GoodResponses_Unfiltered(items) ==
    IF Len(items) = 0 THEN Ok(<< >>)
    ELSE LET code == IntOf(items[1][1])
             rest == GoodResponses_Unfiltered(Tail(items))
         IN IF ~Returned(code) THEN code
            ELSE IF ~Returned(rest) THEN rest
            ELSE Ok(<< <<code.val, items[1][2]>> >> \o rest.val)

\* [(int(status_code), response) for ... if status_code.startswith("2")]
RECURSIVE GoodResponses(_)
GoodResponses(items) ==
    IF Len(items) = 0 THEN Ok(<< >>)
    ELSE IF ~StartsWith(items[1][1], S_2) THEN GoodResponses(Tail(items))
    ELSE LET code == IntOf(items[1][1])
             rest == GoodResponses(Tail(items))
         IN IF ~Returned(code) THEN code
            ELSE IF ~Returned(rest) THEN rest
            ELSE Ok(<< <<code.val, items[1][2]>> >> \o rest.val)

\* The branch taken for an application/json MediaType
ReturnTypeOfMedia(media, status) ==
    IF IsNone(media.media_type_schema)
    THEN Raise("Exception")
    ELSE LET sch == Get(media.media_type_schema) IN
         IF sch.kind = "Reference"
         THEN Ok(OpReturnType(
                  Some(TypeConversion(sch.ref, SplitLast(sch.ref, "/"),
                                      Some(<< SplitLast(sch.ref, "/") >>))),
                  IntCode(status), PyBool(TRUE), None))
         ELSE LET converted_result == type_converter(sch, TRUE) IN
              IF /\ Contains(converted_result.original_type, S_array)
                 /\ ~IsNone(converted_result.import_types)
                 /\ Len(Get(converted_result.import_types)) = 0
              THEN Raise("IndexError")
              ELSE Ok(OpReturnType(
                       Some(converted_result),
                       IntCode(status),
                       PyBool(/\ ~IsNone(converted_result.import_types)
                              /\ Len(Get(converted_result.import_types)) > 0),
                       IF /\ Contains(converted_result.original_type, S_array)
                          /\ ~IsNone(converted_result.import_types)
                       THEN Some(Get(converted_result.import_types)[1])
                       ELSE None))

generate_return_type(op) ==
    IF IsNone(op.responses)
    THEN Ok(OpReturnType(None, StrCode(S_200), PyStr("False"), None))
    ELSE LET good_responses == GoodResponses(Get(op.responses)) IN
         IF ~Returned(good_responses) THEN good_responses
         ELSE IF Len(good_responses.val) = 0
         THEN Ok(OpReturnType(None, StrCode(S_200), PyStr("False"), None))
         ELSE LET status == good_responses.val[1][1]
                  first == good_responses.val[1][2]
              IN IF first.kind # "Response" THEN Raise("AttributeError")
                 ELSE IF IsNone(first.content)
                 THEN Ok(OpReturnType(None, IntCode(status), PyStr("False"), None))
                 ELSE LET media_type_schema ==
                              DictGet(Get(first.content), "application/json")
                      IN IF IsNone(media_type_schema) THEN Raise("Exception")
                         ELSE ReturnTypeOfMedia(Get(media_type_schema), status)

----------------------------------------------------------------------------
(* generate_body_param, generate_params, generate_operation_id,
   generate_query_params *)

Parameter(name, param_in, required, param_schema) ==
    [name |-> name, param_in |-> param_in, required |-> required,
     param_schema |-> param_schema]

RequestBody(content) == [content |-> content]

S_colon == <<" ", ":", " ">>

S_default == <<" ", "=", " ", "N", "o", "n", "e">>

S_data == <<"d", "a", "t", "a">>

generate_body_param(op) ==
    IF IsNone(op.requestBody) THEN None ELSE Some(S_data)

\* _generate_params_from_content
GenerateParamsFromContent(content) ==
    IF content.kind = "Reference"
    THEN S_data \o S_colon \o SplitLast(content.ref, "/")
    ELSE S_data \o S_colon \o type_converter(content, TRUE).converted_type

\* Mutant of ParamDeclaration: the default is appended to required parameters.
ParamDeclaration_DefaultWhenRequired(param) ==
    IF IsNone(param.param_schema) THEN Raise("AttributeError")
    ELSE LET sch == Get(param.param_schema) IN
         Ok((IF sch.kind = "Schema"
             THEN param.name \o S_colon
                  \o type_converter(sch, param.required).converted_type
             ELSE param.name \o S_colon \o SplitLast(sch.ref, "/"))
            \o (IF param.required THEN S_default ELSE << >>))

\* The declaration appended for one parameter
ParamDeclaration(param) ==
    IF IsNone(param.param_schema) THEN Raise("AttributeError")
    ELSE LET sch == Get(param.param_schema) IN
         Ok((IF sch.kind = "Schema"
             THEN param.name \o S_colon
                  \o type_converter(sch, param.required).converted_type
             ELSE param.name \o S_colon \o SplitLast(sch.ref, "/"))
            \o (IF param.required THEN << >> ELSE S_default))

\* for param in operation.parameters: params.append(...)
RECURSIVE ParamDeclarations(_)
ParamDeclarations(parameters) ==
    IF Len(parameters) = 0 THEN Ok(<< >>)
    ELSE LET head == ParamDeclaration(parameters[1]) IN
         IF ~Returned(head) THEN head
         ELSE LET rest == ParamDeclarations(Tail(parameters)) IN
              IF ~Returned(rest) THEN rest
              ELSE Ok(<< head.val >> \o rest.val)

\* Mutant of generate_params: a body without application/json is skipped
\* instead of raising.
generate_params_SkipUnknownBody(op) ==
    IF IsNone(op.parameters) /\ IsNone(op.requestBody) THEN Ok(<< >>)
    ELSE LET declared == IF IsNone(op.parameters) THEN Ok(<< >>)
                         ELSE ParamDeclarations(Get(op.parameters))
         IN IF ~Returned(declared) THEN declared
            ELSE IF IsNone(op.requestBody) THEN declared
            ELSE IF HasKey(Get(op.requestBody).content, "application/json")
            THEN Ok(declared.val \o
                    << GenerateParamsFromContent(
                         Get(Get(DictGet(Get(op.requestBody).content,
                                         "application/json")).media_type_schema)) >>)
            ELSE declared

generate_params(op) ==
    IF IsNone(op.parameters) /\ IsNone(op.requestBody) THEN Ok(<< >>)
    ELSE LET declared == IF IsNone(op.parameters) THEN Ok(<< >>)
                         ELSE ParamDeclarations(Get(op.parameters))
         IN IF ~Returned(declared) THEN declared
            ELSE IF IsNone(op.requestBody) THEN declared
            ELSE IF HasKey(Get(op.requestBody).content, "application/json")
            THEN Ok(declared.val \o
                    << GenerateParamsFromContent(
                         Get(Get(DictGet(Get(op.requestBody).content,
                                         "application/json")).media_type_schema)) >>)
            ELSE Raise("Exception")

generate_operation_id(op, http_op) ==
    IF IsNone(op.operationId) THEN Raise("AttributeError")
    ELSE Ok(Replace(Get(op.operationId), "-", "_"))

\* Mutant of QueryEntries: optional query parameters are left out.
RECURSIVE QueryEntries_RequiredOnly(_)
QueryEntries_RequiredOnly(parameters) ==
    IF Len(parameters) = 0 THEN << >>
    ELSE (IF parameters[1].param_in = "query" /\ parameters[1].required
          THEN << <<"'">> \o parameters[1].name \o <<"'">> \o S_colon
                  \o parameters[1].name >>
          ELSE << >>)
         \o QueryEntries_RequiredOnly(Tail(parameters))

RECURSIVE QueryEntries(_)
QueryEntries(parameters) ==
    IF Len(parameters) = 0 THEN << >>
    ELSE (IF parameters[1].param_in = "query"
          THEN << <<"'">> \o parameters[1].name \o <<"'">> \o S_colon
                  \o parameters[1].name >>
          ELSE << >>)
         \o QueryEntries(Tail(parameters))

generate_query_params(op) ==
    IF IsNone(op.parameters) THEN << >> ELSE QueryEntries(Get(op.parameters))

Operation(operationId, parameters, requestBody, responses, tags) ==
    [operationId |-> operationId, parameters |-> parameters,
     requestBody |-> requestBody, responses |-> responses, tags |-> tags]

----------------------------------------------------------------------------
(* generate_services *)

HTTP_OPERATIONS ==
    <<"get", "post", "put", "delete", "options", "head", "patch", "trace">>

LibraryConfig(include_sync, include_async) ==
    [template_name |-> "httpx.jinja2", library_name |-> "httpx",
     include_sync |-> include_sync, include_async |-> include_async]

\* JINJA_ENV.get_template(template_name).render(**so.dict()): the text of one
\* function, a pure function of the descriptor's fields.
Render(template_name, so) ==
    <<"def ">> \o so.operation_id
    \o <<"(">> \o Join(<<", ">>, so.params) \o <<"):", "\n">>
    \o <<"    ", so.method, " ">> \o so.path_name
    \o <<" ", template_name>>

\* compile(so.content, "<string>", "exec") raises no SyntaxError: the name
\* after "def " must not begin with a digit.
SyntaxOk(content) == ~IsDigit(content[2])

\* The tag attached after rendering (first-wins), else the default
TagOf(op) ==
    IF ~IsNone(op.tags) /\ Len(Get(op.tags)) > 0
    THEN Some(Get(op.tags)[1])
    ELSE None

generate_service_operation(op, path_name, async_type, http_operation, path, config) ==
    LET params == generate_params(op)
        operation_id == generate_operation_id(op, http_operation)
        return_type == generate_return_type(op)
    IN IF ~Returned(params) THEN params
       ELSE IF ~Returned(operation_id) THEN operation_id
       ELSE IF ~Returned(return_type) THEN return_type
       ELSE LET so == [params |-> params.val,
                       operation_id |-> IF async_type
                                        THEN S_async_ \o operation_id.val
                                        ELSE operation_id.val,
                       query_params |-> generate_query_params(op),
                       return_type |-> return_type.val,
                       operation |-> op,
                       pathItem |-> path,
                       content |-> << >>,
                       async_client |-> async_type,
                       body_param |-> generate_body_param(op),
                       path_name |-> path_name,
                       method |-> http_operation,
                       tag |-> None]
            IN Ok([so EXCEPT !.content = Render(config.template_name, so),
                             !.tag = TagOf(op)])

\* The (path_name, path, http_operation, op) of the iterations that do not
\* `continue`, in the order of the two nested loops.
RECURSIVE OperationsOfPath(_, _)
OperationsOfPath(entry, k) ==
    IF k > Len(HTTP_OPERATIONS) THEN << >>
    ELSE (IF IsNone(entry[2][HTTP_OPERATIONS[k]]) THEN << >>
          ELSE << [path_name |-> entry[1], path |-> entry[2],
                   http_operation |-> HTTP_OPERATIONS[k],
                   op |-> Get(entry[2][HTTP_OPERATIONS[k]])] >>)
         \o OperationsOfPath(entry, k + 1)

\* Mutant of Iterations: the paths are visited last to first.
RECURSIVE Iterations_Reversed(_)
Iterations_Reversed(items) ==
    IF Len(items) = 0 THEN << >>
    ELSE Iterations_Reversed(Tail(items)) \o OperationsOfPath(items[1], 1)

RECURSIVE Iterations(_)
Iterations(items) ==
    IF Len(items) = 0 THEN << >>
    ELSE OperationsOfPath(items[1], 1) \o Iterations(Tail(items))

\* The descriptors one iteration appends, or the exception it raises
IterationOutcome(it, config) ==
    LET sync_so == generate_service_operation(
                       it.op, it.path_name, FALSE, it.http_operation, it.path, config)
        async_so == generate_service_operation(
                       it.op, it.path_name, TRUE, it.http_operation, it.path, config)
    IN IF config.include_sync /\ ~Returned(sync_so) THEN sync_so
       ELSE IF config.include_async /\ ~Returned(async_so) THEN async_so
       ELSE Ok((IF config.include_sync THEN << sync_so.val >> ELSE << >>)
               \o (IF config.include_async THEN << async_so.val >> ELSE << >>))

\* click.echo for each descriptor whose content does not compile
RECURSIVE Echoes(_)
Echoes(sos) ==
    IF Len(sos) = 0 THEN << >>
    ELSE (IF SyntaxOk(sos[1].content) THEN << >> ELSE << sos[1].operation_id >>)
         \o Echoes(Tail(sos))

\* The sequences that list every element of a set once: the orders in which
\* `for tag in tags` may visit a set.
RECURSIVE Orders(_)
Orders(S) ==
    IF S = {} THEN {<< >>}
    ELSE UNION {{<< x >> \o rest : rest \in Orders(S \ {x})} : x \in S}

FileStem(tag) == IF IsNone(tag) THEN S_None ELSE Get(tag)

\* Mutant of Members: the async flag is not compared.
Members_AnyFlag(ops, tag, async) ==
    SelectSeq(ops, LAMBDA so : so.tag = tag)

Members(ops, tag, async) ==
    SelectSeq(ops, LAMBDA so : so.tag = tag /\ so.async_client = async)

ContentsOf(sos) == [i \in 1..Len(sos) |-> sos[i].content]

ServiceFor(ops, tag, async, config) ==
    [file_name |-> (IF async THEN S_async_ ELSE << >>)
                   \o FileStem(tag) \o S__service,
     operations |-> Members(ops, tag, async),
     content |-> Join(<<"\n">>, ContentsOf(Members(ops, tag, async))),
     async_client |-> async,
     library_import |-> config.library_name]

\* The two `for tag in tags` loops, visiting the set in the order `order`
GroupServices(ops, order, config) ==
    [i \in 1..Len(order) |-> ServiceFor(ops, order[i], FALSE, config)]
    \o [i \in 1..Len(order) |-> ServiceFor(ops, order[i], TRUE, config)]

TagsOf(ops) == {ops[i].tag : i \in 1..Len(ops)}

----------------------------------------------------------------------------
(* Inputs *)

MaxPaths == 2

MaxResponses == 2

MaxParams == 2

T1 == <<"t", "1">>

T2 == <<"t", "2">>

S_a_b == <<"a", "_", "b">>

S_a_dash_b == <<"a", "-", "b">>

S_2c == <<"2", "c">>

S_str == <<"s", "t", "r">>

S_204 == <<"2", "0", "4">>

S_404 == <<"4", "0", "4">>

S_2XX == <<"2", "X", "X">>

S_id == <<"i", "d">>

S_q == <<"q">>

StrSchema == Schema(<<"s", "t", "r", "i", "n", "g">>, S_str, None)

JsonContent(media_type_schema) ==
    << <<"application/json", MediaType(media_type_schema)>> >>

TextContent == << <<"text/plain", MediaType(Some(StrSchema))>> >>

\* Operations for generate_services: hyphenated, underscored and digit-led
\* operation ids; several, empty and absent tags; parameters, responses, a
\* JSON body and a body without application/json.
ServiceOperationInputs ==
    { Operation(Some(S_2c),
                Some(<< Parameter(S_q, "query", FALSE, Some(StrSchema)) >>),
                Some(RequestBody(JsonContent(Some(Reference(S_RefPet))))),
                Some(<< <<S_200, Response(Some(JsonContent(Some(Reference(S_RefPet)))))>> >>),
                Some(<< T2, T1 >>)),
      Operation(Some(S_a_dash_b), None, None, None, None),
      Operation(Some(S_a_b), None, None, None, Some(<< >>)),
      Operation(Some(S_a_b), None, Some(RequestBody(TextContent)), None,
                Some(<< T1 >>)) }

\* A PathItem: the operation under each HTTP method, or None
PathItems ==
    { [m \in {HTTP_OPERATIONS[k] : k \in 1..Len(HTTP_OPERATIONS)} |->
          IF m = "get" THEN g ELSE IF m = "post" THEN p ELSE None]
      : g \in {None} \cup {Some(o) : o \in ServiceOperationInputs},
        p \in {None} \cup {Some(o) : o \in ServiceOperationInputs} }

PathName(i) == <<"/", "p", Digits[i + 1]>>

\* The dict of n paths keyed /p1 .. /pn in insertion order, with items f
PathsDict(n, f) == [i \in 1..n |-> << PathName(i), f[i] >>]

ConfigInputs == { LibraryConfig(s, a) : s \in BOOLEAN, a \in BOOLEAN }

\* What the type converter may report for an inline response schema
ConversionInputs ==
    { Schema(o, <<"T">>, i) :
        o \in { S_array \o <<"<", "x", ">">>, <<"o", "b", "j">> },
        i \in { None, Some(<< >>), Some(<< S_Pet >>), Some(<< S_Pet, S_Tag >>) } }

ResponseInputs ==
    { Response(None), Response(Some(<< >>)), Response(Some(TextContent)),
      Response(Some(JsonContent(None))),
      Response(Some(JsonContent(Some(Reference(S_RefPet))))),
      Response(Some(TextContent \o JsonContent(Some(Reference(S_RefPet))))),
      Reference(S_RefPet) }
    \cup { Response(Some(JsonContent(Some(c)))) : c \in ConversionInputs }

StatusKeys == { S_200, S_204, S_404, S_2XX }

\* responses dicts: up to MaxResponses entries under distinct keys
ResponsesInputs ==
    UNION { { d \in [1..n -> StatusKeys \X ResponseInputs] :
                \A i, j \in 1..n : i # j => d[i][1] # d[j][1] }
            : n \in 0..MaxResponses }

ReturnTypeInputs ==
    { Operation(Some(S_a_b), None, None, r, None)
      : r \in {None} \cup {Some(d) : d \in ResponsesInputs} }

ParameterInputs ==
    { Parameter(n, l, r, Some(s)) :
        n \in {S_id, S_q}, l \in {"query", "path", "header"}, r \in BOOLEAN,
        s \in {StrSchema, Reference(S_RefPet)} }
    \cup { Parameter(S_id, "query", TRUE, None) }

RequestBodyInputs ==
    { None, Some(RequestBody(TextContent)), Some(RequestBody(<< >>)),
      Some(RequestBody(JsonContent(Some(StrSchema)))),
      Some(RequestBody(TextContent \o JsonContent(Some(Reference(S_RefPet))))) }

ParamsInputs ==
    { Operation(Some(S_a_b), p, b, None, None)
      : p \in {None} \cup
              UNION { { Some(l) : l \in [1..n -> ParameterInputs] } : n \in 0..MaxParams },
        b \in RequestBodyInputs }

----------------------------------------------------------------------------
(* generate_services as a state machine *)

Init ==
    /\ \E n \in 0..MaxPaths : \E f \in [1..n -> PathItems] : paths = PathsDict(n, f)
    /\ library_config \in ConfigInputs
    /\ pos = 0
    /\ service_ops = << >>
    /\ services = << >>
    /\ echoed = << >>
    /\ pc = "loop"
    /\ operation = None
    /\ result = << >>

\* One iteration of the nested loops that reaches an operation (lines 192-204)
LoopStep ==
    /\ pc = "loop"
    /\ LET its == Iterations(paths) IN
       /\ pos < Len(its)
       /\ LET out == IterationOutcome(its[pos + 1], library_config) IN
          IF Returned(out)
          THEN /\ service_ops' = service_ops \o out.val
               /\ echoed' = echoed \o Echoes(out.val)
               /\ pos' = pos + 1
               /\ UNCHANGED << pc, result >>
          ELSE /\ pc' = "raised"
               /\ result' = << out >>
               /\ UNCHANGED << service_ops, echoed, pos >>
    /\ UNCHANGED << paths, library_config, services, operation >>

\* The grouping and the return (lines 206-246)
Group ==
    /\ pc = "loop"
    /\ pos = Len(Iterations(paths))
    /\ \E order \in Orders(TagsOf(service_ops)) :
          services' = GroupServices(service_ops, order, library_config)
    /\ pc' = "returned"
    /\ UNCHANGED << paths, library_config, pos, service_ops, echoed,
                    operation, result >>

Next == LoopStep \/ Group

Spec == Init /\ [][Next]_vars

----------------------------------------------------------------------------
(* One call of generate_return_type *)

InitReturnType ==
    /\ operation \in ReturnTypeInputs
    /\ pc = "call"
    /\ result = << >>
    /\ paths = << >>
    /\ library_config = LibraryConfig(TRUE, TRUE)
    /\ pos = 0
    /\ service_ops = << >>
    /\ services = << >>
    /\ echoed = << >>

CallGenerateReturnType ==
    /\ pc = "call"
    /\ result' = << generate_return_type(operation) >>
    /\ pc' = IF Returned(result'[1]) THEN "returned" ELSE "raised"
    /\ UNCHANGED << paths, library_config, pos, service_ops, services, echoed,
                    operation >>

NextReturnType == CallGenerateReturnType

SpecReturnType == InitReturnType /\ [][NextReturnType]_vars

----------------------------------------------------------------------------
(* The parameter calls of generate_service_operation (lines 156-160), on one
   operation: generate_params, generate_query_params, generate_body_param *)

InitParams ==
    /\ operation \in ParamsInputs
    /\ pc = "params"
    /\ result = << >>
    /\ paths = << >>
    /\ library_config = LibraryConfig(TRUE, TRUE)
    /\ pos = 0
    /\ service_ops = << >>
    /\ services = << >>
    /\ echoed = << >>

CallGenerateParams ==
    /\ pc = "params"
    /\ result' = << generate_params(operation) >>
    /\ pc' = IF Returned(result'[1]) THEN "query_params" ELSE "raised"
    /\ UNCHANGED << paths, library_config, pos, service_ops, services, echoed,
                    operation >>

CallGenerateQueryParams ==
    /\ pc = "query_params"
    /\ result' = Append(result, Ok(generate_query_params(operation)))
    /\ pc' = "body_param"
    /\ UNCHANGED << paths, library_config, pos, service_ops, services, echoed,
                    operation >>

CallGenerateBodyParam ==
    /\ pc = "body_param"
    /\ result' = Append(result, Ok(generate_body_param(operation)))
    /\ pc' = "returned"
    /\ UNCHANGED << paths, library_config, pos, service_ops, services, echoed,
                    operation >>

NextParams ==
    CallGenerateParams \/ CallGenerateQueryParams \/ CallGenerateBodyParam

SpecParams == InitParams /\ [][NextParams]_vars

----------------------------------------------------------------------------
(* Properties of generate_return_type, under SpecReturnType *)

\* The responses dict of the call, empty when responses is absent
ResponseItems == IF IsNone(operation.responses) THEN << >> ELSE Get(operation.responses)

\* Positions of the entries whose key starts with "2"
GoodPositions == {i \in 1..Len(ResponseItems) : ResponseItems[i][1][1] = "2"}

FirstGood == CHOOSE i \in GoodPositions : \A k \in GoodPositions : i <= k

\* Every key that starts with "2" is three decimal digits
GoodKeysDecimal ==
    \A i \in GoodPositions : \A c \in 1..3 : IsDigit(ResponseItems[i][1][c])

KeyNumber(key) == 100 * DigitVal(key[1]) + 10 * DigitVal(key[2]) + DigitVal(key[3])

NoTypeResult(status_code) ==
    [type |-> None, status_code |-> status_code, complex_type |-> FALSE,
     list_type |-> None]

\* C5: generate_return_type selects the first entry of responses, in insertion
\* order, whose key starts with "2". Whenever it returns, the result is the one
\* that entry alone gives and the status code is that entry's key as an int;
\* a non-2xx entry is never selected. With responses absent or holding no 2xx
\* entry it returns no type, status code "200", not complex.
C5_FirstGoodResponseIsCanonical ==
    pc # "call" =>
        /\ GoodPositions = {} =>
              result[1] = Ok(NoTypeResult(StrCode(<<"2", "0", "0">>)))
        /\ (GoodPositions # {} /\ Returned(result[1])) =>
              /\ result[1].val.status_code.t = "int"
              /\ result[1].val.status_code.n = KeyNumber(ResponseItems[FirstGood][1])
              /\ result[1] = generate_return_type(
                     [operation EXCEPT !.responses = Some(<< ResponseItems[FirstGood] >>)])

\* C5 witness: a 2xx entry with a JSON type is chosen from behind a 404 entry.
C5_Witness ==
    /\ pc = "returned"
    /\ Len(ResponseItems) = 2
    /\ ResponseItems[1][1] = S_404
    /\ ResponseItems[1][2].kind = "Response"
    /\ ~IsNone(ResponseItems[1][2].content)
    /\ ResponseItems[2][1] = S_204
    /\ result[1].val.status_code = IntCode(204)
    /\ ~IsNone(result[1].val.type)

\* The chosen response is a Response object
ChosenIsResponse ==
    /\ GoodPositions # {}
    /\ GoodKeysDecimal
    /\ ResponseItems[FirstGood][2].kind = "Response"

ChosenContent == ResponseItems[FirstGood][2].content

\* C6: when the chosen 2xx response has no content, or content without an
\* "application/json" entry, generate_return_type returns (it does not raise)
\* no type, the chosen status code and complex_type false.
C6_NoJsonContentReturnsNoType ==
    (/\ pc # "call"
     /\ ChosenIsResponse
     /\ \/ IsNone(ChosenContent)
        \/ ~ \E i \in 1..Len(Get(ChosenContent)) :
                 Get(ChosenContent)[i][1] = "application/json")
    => result[1] = Ok(NoTypeResult(IntCode(KeyNumber(ResponseItems[FirstGood][1]))))

\* The chosen response carries an inline JSON schema
ChosenInlineSchema ==
    /\ ChosenIsResponse
    /\ ~IsNone(ChosenContent)
    /\ \E i \in 1..Len(Get(ChosenContent)) :
          /\ Get(ChosenContent)[i][1] = "application/json"
          /\ ~IsNone(Get(ChosenContent)[i][2].media_type_schema)
          /\ Get(Get(ChosenContent)[i][2].media_type_schema).kind = "Schema"

ChosenSchema ==
    LET i == CHOOSE i \in 1..Len(Get(ChosenContent)) :
                 Get(ChosenContent)[i][1] = "application/json"
    IN Get(Get(ChosenContent)[i][2].media_type_schema)

ReportsImports(schema) ==
    ~IsNone(schema.import_types) /\ Len(Get(schema.import_types)) > 0

\* C10: for an inline JSON response schema and any TypeConversion (import_types
\* absent, empty or non-empty), generate_return_type returns; list_type is the
\* first auxiliary import name exactly when original_type contains "array" and
\* an auxiliary import name was reported, absent otherwise; complex_type is
\* true exactly when an auxiliary import name was reported.
C10_ListTypeAndComplexType ==
    (pc # "call" /\ ChosenInlineSchema) =>
        /\ Returned(result[1])
        /\ result[1].val.list_type =
              (IF /\ Contains(ChosenSchema.original_type, <<"a", "r", "r", "a", "y">>)
                  /\ ReportsImports(ChosenSchema)
               THEN Some(Get(ChosenSchema.import_types)[1])
               ELSE None)
        /\ result[1].val.complex_type = ReportsImports(ChosenSchema)

----------------------------------------------------------------------------
(* Properties of generate_params and generate_query_params, under SpecParams *)

\* The declared parameters of the call, empty when parameters is absent
Declared == IF IsNone(operation.parameters) THEN << >> ELSE Get(operation.parameters)

EndsWith(s, suffix) ==
    /\ Len(s) >= Len(suffix)
    /\ SubSeq(s, Len(s) - Len(suffix) + 1, Len(s)) = suffix

HasJsonBody ==
    /\ ~IsNone(operation.requestBody)
    /\ \E i \in 1..Len(Get(operation.requestBody).content) :
          Get(operation.requestBody).content[i][1] = "application/json"

\* The type a declaration names for a parameter
DeclaredType(param) ==
    LET sch == Get(param.param_schema) IN
    IF sch.kind = "Reference" THEN <<"P", "e", "t">>
    ELSE IF param.required THEN sch.converted_type
    ELSE <<"Optional", "[">> \o sch.converted_type \o <<"]">>

\* C8: whenever generate_params returns, its result holds one declaration
\* "name : type" per declared parameter, in schema order, ending with " = None"
\* exactly when the parameter is not required, then exactly one "data : <type>"
\* entry, last, when the operation has a JSON request body and nothing
\* otherwise; it is empty with neither parameters nor a request body.
C8_ParamsOrderAndDefaults ==
    (pc \in {"query_params", "body_param", "returned"}) =>
        LET params == result[1].val IN
        /\ Len(params) = Len(Declared) + (IF HasJsonBody THEN 1 ELSE 0)
        /\ \A i \in 1..Len(Declared) :
              /\ StartsWith(params[i],
                            Declared[i].name \o <<" ", ":", " ">> \o DeclaredType(Declared[i]))
              /\ EndsWith(params[i], <<" ", "=", " ", "N", "o", "n", "e">>)
                     <=> ~Declared[i].required
              /\ Len(params[i]) = Len(Declared[i].name) + 3 + Len(DeclaredType(Declared[i]))
                                  + (IF Declared[i].required THEN 0 ELSE 7)
        /\ HasJsonBody =>
              StartsWith(params[Len(params)], <<"d", "a", "t", "a", " ", ":", " ">>)
        /\ (IsNone(operation.parameters) /\ IsNone(operation.requestBody)) =>
              params = << >>

\* C8 witness: a required and an optional parameter followed by the JSON body.
C8_Witness ==
    /\ pc = "returned"
    /\ Len(Declared) = 2
    /\ Declared[1].required
    /\ ~Declared[2].required
    /\ HasJsonBody
    /\ Len(result[1].val) = 3
    /\ result[1].val[3] = <<"d", "a", "t", "a", " ", ":", " ", "P", "e", "t">>

\* The query-located parameters, in schema order
QueryDeclared == SelectSeq(Declared, LAMBDA param : param.param_in = "query")

\* C9: query_params has exactly one entry "'name' : name" per declared
\* parameter located in "query", in schema order, required or not, and none for
\* other locations or the body; each of its names is the name of a declaration
\* in params.
C9_QueryParamsAreTheQueryParameters ==
    (pc \in {"body_param", "returned"}) =>
        LET params == result[1].val
            query_params == result[2].val
        IN /\ Len(query_params) = Len(QueryDeclared)
           /\ \A j \in 1..Len(QueryDeclared) :
                 /\ query_params[j] =
                       <<"'">> \o QueryDeclared[j].name \o <<"'", " ", ":", " ">>
                       \o QueryDeclared[j].name
                 /\ \E i \in 1..Len(params) :
                       StartsWith(params[i], QueryDeclared[j].name \o <<" ", ":", " ">>)

\* C9 witness: an optional query parameter after a path parameter, with a
\* body: one query entry out of three declarations.
C9_Witness ==
    /\ pc = "returned"
    /\ Len(Declared) = 2
    /\ Declared[1].param_in = "path"
    /\ Declared[2].param_in = "query"
    /\ ~Declared[2].required
    /\ HasJsonBody
    /\ Len(result[1].val) = 3
    /\ result[2].val = << <<"'", "q", "'", " ", ":", " ", "q">> >>

----------------------------------------------------------------------------
(* Properties of generate_services, under Spec *)

DistinctTags == {service_ops[k].tag : k \in 1..Len(service_ops)}

\* C1: generate_services returns 2 x |distinct tags| services when include_sync
\* and include_async are both enabled, and |distinct tags| services when only
\* one of the two is.
C1_ServiceCount ==
    pc = "returned" =>
        /\ (library_config.include_sync /\ library_config.include_async) =>
              Len(services) = 2 * Cardinality(DistinctTags)
        /\ (library_config.include_sync # library_config.include_async) =>
              Len(services) = Cardinality(DistinctTags)

\* How often a descriptor occurs in a list
Occurrences(so, list) == Cardinality({m \in 1..Len(list) : list[m] = so})

\* The services that list a descriptor
Holders(so) == {s \in 1..Len(services) : Occurrences(so, services[s].operations) > 0}

ExpectedFileName(so) ==
    (IF so.async_client THEN <<"a", "s", "y", "n", "c", "_">> ELSE << >>)
    \o (IF IsNone(so.operation.tags) \/ Len(Get(so.operation.tags)) = 0
        THEN <<"N", "o", "n", "e">>
        ELSE Get(so.operation.tags)[1])
    \o <<"_", "s", "e", "r", "v", "i", "c", "e">>

RECURSIVE TotalMembers(_)
TotalMembers(list) ==
    IF Len(list) = 0 THEN 0
    ELSE Len(list[1].operations) + TotalMembers(Tail(list))

\* C2: after generate_services returns, every descriptor built during the pass
\* is listed by exactly one returned Service, once: the one of the descriptor's
\* async flag and tag (the first tag of its operation; the absent tag None when
\* the operation has none). None is dropped or duplicated.
C2_EveryDescriptorInExactlyOneService ==
    pc = "returned" =>
        /\ \A k \in 1..Len(service_ops) :
              LET so == service_ops[k] IN
              /\ Cardinality(Holders(so)) = 1
              /\ \A s \in Holders(so) :
                    /\ Occurrences(so, services[s].operations) = 1
                    /\ services[s].async_client = so.async_client
                    /\ services[s].file_name = ExpectedFileName(so)
        /\ TotalMembers(services) = Len(service_ops)

\* C2 witness: tagged and untagged operations, sync and async, grouped into
\* four services.
C2_Witness ==
    /\ pc = "returned"
    /\ Len(services) = 4
    /\ Len(service_ops) = 6
    /\ \E k \in 1..Len(service_ops) : IsNone(service_ops[k].operation.tags)
    /\ \E k \in 1..Len(service_ops) :
          /\ ~IsNone(service_ops[k].operation.tags)
          /\ Len(Get(service_ops[k].operation.tags)) = 0
    /\ \E k \in 1..Len(service_ops) : service_ops[k].tag = Some(<<"t", "2">>)

PathIndex(path_name) == CHOOSE i \in 1..Len(paths) : paths[i][1] = path_name

MethodIndex(method) == CHOOSE k \in 1..Len(HTTP_OPERATIONS) : HTTP_OPERATIONS[k] = method

\* Descriptor a is built before descriptor b
BuiltBefore(a, b) ==
    \/ PathIndex(a.path_name) < PathIndex(b.path_name)
    \/ /\ a.path_name = b.path_name
       /\ MethodIndex(a.method) < MethodIndex(b.method)
    \/ /\ a.path_name = b.path_name
       /\ a.method = b.method
       /\ ~a.async_client
       /\ b.async_client

\* Where member m's content starts in a content joined by one-character
\* separators
RECURSIVE Offset(_, _)
Offset(list, m) ==
    IF m = 1 THEN 0 ELSE Offset(list, m - 1) + Len(list[m - 1].content) + 1

\* C3: every returned Service lists its members in the order they were built
\* (paths in input order, methods in HTTP_OPERATIONS order, sync before async),
\* and its content is the members' rendered content in that order, joined by a
\* newline.
C3_EncounterOrderPreserved ==
    pc = "returned" =>
        /\ \A a, b \in 1..Len(service_ops) :
              a < b => BuiltBefore(service_ops[a], service_ops[b])
        /\ \A s \in 1..Len(services) :
              LET ops == services[s].operations
                  n == Len(ops)
              IN /\ \A a, b \in 1..n : a < b => BuiltBefore(ops[a], ops[b])
                 /\ Len(services[s].content) =
                       IF n = 0 THEN 0 ELSE Offset(ops, n) + Len(ops[n].content)
                 /\ \A m \in 1..n :
                       /\ SubSeq(services[s].content, Offset(ops, m) + 1,
                                 Offset(ops, m) + Len(ops[m].content)) = ops[m].content
                       /\ m > 1 => services[s].content[Offset(ops, m)] = "\n"

\* C3 witness: one service holds three members that come from two paths and
\* two methods.
C3_Witness ==
    /\ pc = "returned"
    /\ \E s \in 1..Len(services) :
          /\ Len(services[s].operations) = 3
          /\ services[s].operations[1].method = "get"
          /\ services[s].operations[2].method = "post"
          /\ services[s].operations[1].path_name = services[s].operations[2].path_name
          /\ services[s].operations[3].path_name # services[s].operations[1].path_name

\* C4: no two members of one returned Service have the same operation_id.
C4_OperationIdsUniquePerService ==
    pc = "returned" =>
        \A s \in 1..Len(services) :
            \A a, b \in 1..Len(services[s].operations) :
                a # b => services[s].operations[a].operation_id
                         # services[s].operations[b].operation_id

\* The operation declares a request body without an application/json entry
UnknownBody(op) ==
    /\ ~IsNone(op.requestBody)
    /\ ~ \E i \in 1..Len(Get(op.requestBody).content) :
             Get(op.requestBody).content[i][1] = "application/json"

\* Iteration k of the iterations its fails in generate_params: the loop never
\* gets past it, no descriptor of it is kept, the exception ends the run and
\* nothing is returned.
FailsAt(its, k) ==
    /\ pos < k
    /\ pc # "returned"
    /\ services = << >>
    /\ ~ \E m \in 1..Len(service_ops) :
             /\ service_ops[m].path_name = its[k].path_name
             /\ service_ops[m].method = its[k].http_operation
    /\ (pos = k - 1 /\ pc # "loop") =>
           (pc = "raised" /\ result = << [exc |-> "Exception", val |-> << >>] >>)

\* C7 as stated: an operation reached by generate_services whose request body
\* has no "application/json" entry makes generation fail with the error of
\* generate_params, before a descriptor of it exists, and no Service list is
\* returned.
C7_UnknownBodyFails ==
    LET its == Iterations(paths) IN
    \A k \in 1..Len(its) : UnknownBody(its[k].op) => FailsAt(its, k)

\* C7 amended: the same, provided include_sync or include_async is enabled
\* (with both disabled generate_service_operation is never called).
C7_UnknownBodyFailsWhenGenerating ==
    (library_config.include_sync \/ library_config.include_async) =>
        LET its == Iterations(paths) IN
        \A k \in 1..Len(its) : UnknownBody(its[k].op) => FailsAt(its, k)

\* C7 witness: the run fails at its third operation, after four descriptors
\* were built, and returns nothing.
C7_Witness ==
    /\ pc = "raised"
    /\ pos = 2
    /\ Len(service_ops) = 4
    /\ UnknownBody(Iterations(paths)[3].op)
    /\ result[1].exc = "Exception"
    /\ services = << >>

====
